---- MODULE Spec2Model ----
(***************************************************************************)
(* WalletAdapterSigner (eth_defi/gmx/wallet_adapter_signer.py): an adapter  *)
(* presenting get_address / sign_message / sign_transaction /               *)
(* send_transaction over three wallet backends (HotWallet,                  *)
(* Web3ProviderWallet, any other BaseWallet).                               *)
(*                                                                         *)
(* A state is the wallet the adapter wraps, plus a record of the most       *)
(* recent call: its operation and argument, the caller's request object     *)
(* after the call, what the call returned or raised, and the calls it made  *)
(* on the wallet and on the chain client (web3.eth); `signing` is the       *)
(* outcome of the signing step inside the call, when it has one.           *)
(*                                                                         *)
(* `threads` is the position of two callers inside sign_transaction when   *)
(* they share one HotWallet (SpecThreads); `history` is what a HotWallet   *)
(* has signed over a whole sequence of calls (SpecHistory).                *)
(***************************************************************************)
EXTENDS Integers, Sequences, FiniteSets, TLC

VARIABLES wallet, call, unsigned_tx, ret, signing, chain_calls, wallet_calls,
          threads, history

vars == <<wallet, call, unsigned_tx, ret, signing, chain_calls, wallet_calls,
          threads, history>>

\* the record of the most recent call
log == <<call, unsigned_tx, ret, signing, chain_calls, wallet_calls>>

(***************************************************************************)
(* Bounds                                                                  *)
(***************************************************************************)
\* largest explicit nonce a request carries, largest nonce a wallet starts at
MaxNonce == 3
\* largest "value" field of a request
MaxValue == 0
\* largest nonce a wallet without a nonce cache allocates by itself
MaxAlloc == 1
\* the cache is not driven beyond this by the wallet's allocator
MaxCached == MaxNonce + 2

\* Python None as the value of wallet.current_nonce (nonces are >= 0)
None == -1

max(a, b) == IF a >= b THEN a ELSE b

(***************************************************************************)
(* Python dict operations on a request (a function from field names)       *)
(***************************************************************************)
DictPop(d, k) == [f \in (DOMAIN d) \ {k} |-> d[f]]

DictSet(d, k, v) == [f \in (DOMAIN d) \cup {k} |-> IF f = k THEN v ELSE d[f]]

DictCopy(d) == [f \in DOMAIN d |-> d[f]]

(***************************************************************************)
(* Exceptions: a chain of [type, msg] records, outermost first; the tail   *)
(* is the __cause__ chain built by "raise ... from e".                     *)
(***************************************************************************)
Exc(type, msg) == <<[type |-> type, msg |-> msg]>>

RaiseFrom(type, msg, e) == Exc(type, msg) \o e

\* the failure kind a caller sees: decided by the outermost exception only
Kind(e) ==
    LET x == e[1] IN
    CASE x.type = "NotImplementedError" -> "UnsupportedOperation"
      [] x.type = "ValueError" /\ x.msg = "Failed to sign message" -> "SigningFailed"
      [] x.type = "ValueError" /\ x.msg = "Failed to send transaction" -> "TransactionSendFailed"
      [] x.type = "ValueError" /\ x.msg = "Unknown signed transaction format" -> "MalformedSignedTransaction"
      [] x.type = "ValueError" /\ x.msg = "Unsupported message type" -> "InvalidInput"
      [] OTHER -> "BackendSpecific"

Returned(v) == [status |-> "returned", value |-> v, exc |-> <<>>]

Raised(e) == [status |-> "raised", value |-> <<>>, exc |-> e]

\* the call had no signing step
NoSigning == [status |-> "none", value |-> <<>>, exc |-> <<>>]

(***************************************************************************)
(* The wallet: [type, attrs, current_nonce].  attrs is the set of optional *)
(* attributes the wallet object exposes (what hasattr() answers).          *)
(***************************************************************************)
WalletTypes == {"HotWallet", "Web3ProviderWallet", "BaseWallet"}

\* the wallet keeps a cached next nonce and it is initialised
Tracking(w) == "current_nonce" \in w.attrs /\ w.current_nonce # None

\* raw transaction bytes: the signed fields in their wire order (the sender
\* address is not part of the encoding)
Encode(tx) == <<tx["nonce"], tx["to"], tx["value"]>>

\* the nonce a raw transaction was signed with
RawNonce(raw) == raw[1]

\* a signed transaction object of class cls exposing the accessors in shape
Signed(cls, shape, tx) == [cls |-> cls, attr |-> [a \in shape |-> Encode(tx)]]

\* Wallet.allocate_nonce: hand out the cached next nonce and advance it.  A
\* wallet that does not track a nonce itself (only possible for a generic
\* BaseWallet) allocates some number `alloc` of its own.
allocate_nonce(w, alloc) ==
    IF Tracking(w)
    THEN [ok |-> TRUE, nonce |-> w.current_nonce,
          wallet |-> [w EXCEPT !.current_nonce = @ + 1]]
    ELSE IF w.type = "BaseWallet"
    THEN [ok |-> TRUE, nonce |-> alloc, wallet |-> w]
    ELSE [ok |-> FALSE, nonce |-> None, wallet |-> w]

\* Wallet.sign_transaction_with_new_nonce: refuses a request that already has
\* a nonce, allocates one, signs.  A failed sign leaves the wallet untouched.
\* The wallet may leave the allocated nonce in the request it was handed.
\* A HotWallet returns a SignedTransactionWithNonce (accessor rawTransaction);
\* a Web3ProviderWallet cannot sign locally at all.
sign_transaction_with_new_nonce(w, tx, env) ==
    LET a == allocate_nonce(w, env.alloc)
        full == DictSet(tx, "nonce", a.nonce)
        cls == IF w.type = "HotWallet" THEN "SignedTransactionWithNonce" ELSE "SignedTx"
        shape == IF w.type = "HotWallet" THEN {"rawTransaction"} ELSE env.shape
    IN  IF env.sign_fails \/ w.type = "Web3ProviderWallet" \/ "nonce" \in DOMAIN tx \/ ~a.ok
        THEN [ret |-> Raised(Exc("WalletError", "sign_transaction_with_new_nonce")),
              tx |-> tx, wallet |-> w]
        ELSE [ret |-> Returned(Signed(cls, shape, full)),
              tx |-> IF env.writes_nonce THEN full ELSE tx,
              wallet |-> a.wallet]

\* HotWallet.account.sign_transaction: signs the request as given, with the
\* nonce it carries; touches neither the request nor the wallet's cache.
account_sign_transaction(tx, env) ==
    IF env.sign_fails
    THEN Raised(Exc("WalletError", "account.sign_transaction"))
    ELSE Returned(Signed("SignedTransaction", env.shape, tx))

(***************************************************************************)
(* WalletAdapterSigner.sign_transaction                                    *)
(***************************************************************************)
\* lines 117 and 131: the cache after signing with explicit nonce n
ReconcileOverwrite(nonce, current_nonce) == nonce + 1

ReconcileNoIncrement(nonce, current_nonce) == max(nonce, current_nonce)

ReconcileSkipAhead(nonce, current_nonce) == max(nonce + 2, current_nonce)

Reconcile(nonce, current_nonce) == max(nonce + 1, current_nonce)

\* line 128: put the caller's nonce back into the request
RestoreNonceSkipped(tx, nonce) == tx

RestoreNonce(tx, nonce) == DictSet(tx, "nonce", nonce)

\* line 135: without an explicit nonce the wallet is left as its own
\* sign_transaction_with_new_nonce left it
AfterDelegationReconciled(w) ==
    [w EXCEPT !.current_nonce = IF @ = None THEN @ ELSE @ + 1]

AfterDelegation(w) == w

\* result: what is returned or raised, the request object and the wallet
\* afterwards, and the wallet operations invoked
sign_transaction(w, tx, env) ==
    IF "nonce" \in DOMAIN tx
    THEN IF w.type = "HotWallet"
         THEN LET result == account_sign_transaction(tx, env)
              IN  [ret |-> result, tx |-> tx,
                   wallet |-> IF result.status = "returned" /\ w.current_nonce # None
                              THEN [w EXCEPT !.current_nonce = Reconcile(tx["nonce"], @)]
                              ELSE w,
                   wcalls |-> <<[op |-> "account.sign_transaction", tx |-> tx]>>]
         ELSE IF w.type = "Web3ProviderWallet"
         THEN [ret |-> Raised(Exc("NotImplementedError", "Direct signing with nonce not supported")),
               tx |-> tx, wallet |-> w, wcalls |-> <<>>]
         ELSE LET nonce == tx["nonce"]
                  popped == DictPop(tx, "nonce")
                  r == sign_transaction_with_new_nonce(w, popped, env)
                  wc == <<[op |-> "sign_transaction_with_new_nonce", tx |-> popped]>>
              IN  IF r.ret.status = "raised"
                  THEN [ret |-> r.ret, tx |-> r.tx, wallet |-> r.wallet, wcalls |-> wc]
                  ELSE [ret |-> r.ret, tx |-> RestoreNonce(r.tx, nonce),
                        wallet |-> IF "current_nonce" \in r.wallet.attrs
                                      /\ r.wallet.current_nonce # None
                                   THEN [r.wallet EXCEPT !.current_nonce = Reconcile(nonce, @)]
                                   ELSE r.wallet,
                        wcalls |-> wc]
    ELSE LET r == sign_transaction_with_new_nonce(w, tx, env)
         IN  [ret |-> r.ret, tx |-> r.tx, wallet |-> AfterDelegation(r.wallet),
              wcalls |-> <<[op |-> "sign_transaction_with_new_nonce", tx |-> tx]>>]

(***************************************************************************)
(* The chain client (web3.eth)                                             *)
(***************************************************************************)
\* the transaction hash the node answers for a payload
TxHash(payload) == [hash_of |-> payload]

(***************************************************************************)
(* WalletAdapterSigner.send_transaction                                    *)
(***************************************************************************)
\* lines 170-177: find the raw bytes on the signed result
ExtractRaw(signed_tx) ==
    IF "rawTransaction" \in DOMAIN signed_tx.attr
    THEN [ok |-> TRUE, raw_tx |-> signed_tx.attr["rawTransaction"]]
    ELSE IF "raw_transaction" \in DOMAIN signed_tx.attr
    THEN [ok |-> TRUE, raw_tx |-> signed_tx.attr["raw_transaction"]]
    ELSE IF signed_tx.cls = "SignedTransactionWithNonce"
    THEN [ok |-> TRUE, raw_tx |-> signed_tx.attr["rawTransaction"]]
    ELSE [ok |-> FALSE, raw_tx |-> <<>>]

\* lines 154-156: the copy handed to the provider, without "from"
ProviderCopyKeepFrom(tx) == DictCopy(tx)

ProviderCopy(tx) ==
    LET tx_copy == DictCopy(tx)
    IN  IF "from" \in DOMAIN tx_copy THEN DictPop(tx_copy, "from") ELSE tx_copy

\* line 159: does the provider path ask the wallet for a nonce
NeedsAllocationAlways(w, tx_copy) == "allocate_nonce" \in w.attrs

NeedsAllocation(w, tx_copy) ==
    "nonce" \notin DOMAIN tx_copy /\ "allocate_nonce" \in w.attrs

\* lines 152-163
send_via_provider(w, tx, env) ==
    LET tx_copy == ProviderCopy(tx)
    IN  IF NeedsAllocation(w, tx_copy)
        THEN LET a == allocate_nonce(w, env.alloc)
                 wc == <<[op |-> "allocate_nonce", tx |-> <<>>]>>
                 payload == DictSet(tx_copy, "nonce", a.nonce)
             IN  IF ~a.ok
                 THEN [ret |-> Raised(Exc("WalletError", "allocate_nonce")),
                       tx |-> tx, wallet |-> w, wcalls |-> wc, ccalls |-> <<>>,
                       signing |-> NoSigning]
                 ELSE [ret |-> IF env.chain_fails
                               THEN Raised(Exc("RpcError", "send_transaction"))
                               ELSE Returned(TxHash(payload)),
                       tx |-> tx, wallet |-> a.wallet, wcalls |-> wc,
                       ccalls |-> <<[method |-> "send_transaction", arg |-> payload]>>,
                       signing |-> NoSigning]
        ELSE [ret |-> IF env.chain_fails
                      THEN Raised(Exc("RpcError", "send_transaction"))
                      ELSE Returned(TxHash(tx_copy)),
              tx |-> tx, wallet |-> w, wcalls |-> <<>>,
              ccalls |-> <<[method |-> "send_transaction", arg |-> tx_copy]>>,
              signing |-> NoSigning]

\* line 180: what is submitted for a signed transaction with raw bytes raw_tx
SubmitTwice(raw_tx) ==
    <<[method |-> "send_raw_transaction", arg |-> raw_tx],
      [method |-> "send_raw_transaction", arg |-> raw_tx]>>

Submit(raw_tx) == <<[method |-> "send_raw_transaction", arg |-> raw_tx]>>

\* lines 181-182: the wallet after a failure that follows a successful sign;
\* the except clause only re-raises
AfterSendFailureRolledBack(before, after) == before

AfterSendFailure(before, after) == after

\* lines 165-182
send_signed(w, tx, env) ==
    LET s == sign_transaction(w, tx, env)
        x == ExtractRaw(s.ret.value)
        wrap(e) == Raised(RaiseFrom("ValueError", "Failed to send transaction", e))
    IN  IF s.ret.status = "raised"
        THEN [ret |-> wrap(s.ret.exc), tx |-> s.tx, wallet |-> s.wallet,
              wcalls |-> s.wcalls, ccalls |-> <<>>, signing |-> s.ret]
        ELSE IF ~x.ok
        THEN [ret |-> wrap(Exc("ValueError", "Unknown signed transaction format")),
              tx |-> s.tx, wallet |-> AfterSendFailure(w, s.wallet),
              wcalls |-> s.wcalls, ccalls |-> <<>>, signing |-> s.ret]
        ELSE [ret |-> IF env.chain_fails
                      THEN wrap(Exc("RpcError", "send_raw_transaction"))
                      ELSE Returned(TxHash(x.raw_tx)),
              tx |-> s.tx,
              wallet |-> IF env.chain_fails THEN AfterSendFailure(w, s.wallet) ELSE s.wallet,
              wcalls |-> s.wcalls,
              ccalls |-> Submit(x.raw_tx), signing |-> s.ret]

send_transaction(w, tx, env) ==
    IF w.type = "Web3ProviderWallet"
    THEN send_via_provider(w, tx, env)
    ELSE send_signed(w, tx, env)

(***************************************************************************)
(* WalletAdapterSigner.get_address                                         *)
(***************************************************************************)
\* cchecksum.to_checksum_address on the addresses of the model
to_checksum_address(a) ==
    CASE a = "0xab" -> "0xAb"
      [] a = "0xAb" -> "0xAb"
      [] OTHER -> a

get_address(w) == Returned(to_checksum_address(w.address))

(***************************************************************************)
(* WalletAdapterSigner.sign_message                                        *)
(* A message is [type, val]: a str is the sequence of its character codes,   *)
(* bytes a sequence of 0..255, an int a natural number.                    *)
(***************************************************************************)
\* "0x01", "0x61", "a", "0x"
StrMessages == {<<48, 120, 48, 49>>, <<48, 120, 54, 49>>, <<97>>, <<48, 120>>}

Messages ==
    {[type |-> "str", val |-> v] : v \in StrMessages}
    \cup {[type |-> "int", val |-> v] : v \in {1, 97, 256}}
    \cup {[type |-> "bytes", val |-> v] : v \in {<<1>>, <<97>>, <<1, 0>>}}
    \cup {[type |-> "float", val |-> 1]}

\* message.startswith("0x")
StartsWith0x(str) == Len(str) >= 2 /\ str[1] = 48 /\ str[2] = 120

HexDigit(c) == IF c >= 97 THEN c - 87 ELSE IF c >= 65 THEN c - 55 ELSE c - 48

\* HexBytes("0x..."): decode the digits after the prefix, two per byte
HexToBytes(str) ==
    LET digits == SubSeq(str, 3, Len(str))
        even == IF Len(digits) % 2 = 1 THEN <<48>> \o digits ELSE digits
    IN  [i \in 1..(Len(even) \div 2) |->
            16 * HexDigit(even[2 * i - 1]) + HexDigit(even[2 * i])]

\* message.encode("utf-8") for ASCII text
Utf8(str) == str

RECURSIVE BigEndian(_)
BigEndian(n) == IF n < 256 THEN <<n>> ELSE Append(BigEndian(n \div 256), n % 256)

\* Web3.to_bytes(int)
IntToBytes(n) == BigEndian(n)

\* eth_account.messages.encode_defunct: the personal-message envelope
encode_defunct(b) == [version |-> "E", header |-> Len(b), body |-> b]

\* lines 60-71: [ok, signable_message]
Normalize(message) ==
    IF message.type = "str"
    THEN IF StartsWith0x(message.val)
         THEN [ok |-> TRUE, signable_message |-> encode_defunct(HexToBytes(message.val))]
         ELSE [ok |-> TRUE, signable_message |-> encode_defunct(Utf8(message.val))]
    ELSE IF message.type = "int"
    THEN [ok |-> TRUE, signable_message |-> encode_defunct(IntToBytes(message.val))]
    ELSE IF message.type = "bytes"
    THEN [ok |-> TRUE, signable_message |-> encode_defunct(message.val)]
    ELSE [ok |-> FALSE, signable_message |-> <<>>]

\* what a wallet's message signing yields: a SignedMessage
SignedMessage(w, signable_message) ==
    [messageHash |-> [keccak |-> signable_message],
     signature |-> [signer |-> w.address, signed |-> signable_message]]

\* line 87: the field of the generic wallet's result that is returned
GenericResultField(signed) == signed.messageHash

\* lines 73-92, with the exception raised inside the try block
sign_message_dispatch(w, signable_message, env) ==
    IF w.type = "HotWallet"
    THEN [ret |-> IF env.sign_fails
                  THEN Raised(Exc("WalletError", "account.sign_message"))
                  ELSE Returned(SignedMessage(w, signable_message).signature),
          wcalls |-> <<[op |-> "account.sign_message", tx |-> <<>>]>>]
    ELSE IF w.type = "Web3ProviderWallet"
    THEN [ret |-> Raised(Exc("NotImplementedError", "Message signing not implemented")),
          wcalls |-> <<>>]
    ELSE IF "sign_message" \in w.attrs
    THEN [ret |-> IF env.sign_fails
                  THEN Raised(Exc("WalletError", "sign_message"))
                  ELSE Returned(GenericResultField(SignedMessage(w, signable_message))),
          wcalls |-> <<[op |-> "sign_message", tx |-> <<>>]>>]
    ELSE [ret |-> Raised(Exc("NotImplementedError", "Message signing not implemented")),
          wcalls |-> <<>>]

\* line 91-92: what the except clause lets out for an exception e of the try
SignMessageExceptPassThrough(e) == e

SignMessageExcept(e) == RaiseFrom("ValueError", "Failed to sign message", e)

sign_message(w, message, env) ==
    LET n == Normalize(message)
        d == sign_message_dispatch(w, n.signable_message, env)
    IN  IF ~n.ok
        THEN [ret |-> Raised(Exc("ValueError", "Unsupported message type")), wcalls |-> <<>>]
        ELSE IF d.ret.status = "raised"
        THEN [ret |-> Raised(SignMessageExcept(d.ret.exc)), wcalls |-> d.wcalls]
        ELSE d

(***************************************************************************)
(* The state machine                                                       *)
(***************************************************************************)
Wallet(type, attrs, cn) ==
    [type |-> type, attrs |-> attrs, current_nonce |-> cn, address |-> "0xab"]

Nonces == 0..MaxNonce

\* the wallets an adapter can be constructed with.  A HotWallet always has
\* the nonce cache and the allocator; the provider wallet's allocator and
\* the generic wallet's cache and sign_message are optional.
Wallets ==
    {Wallet("HotWallet", {"current_nonce", "allocate_nonce"}, cn) :
        cn \in {None} \cup Nonces}
    \cup {Wallet("Web3ProviderWallet", {"current_nonce", "allocate_nonce"}, cn) :
        cn \in {None} \cup Nonces}
    \cup {Wallet("Web3ProviderWallet", {}, None)}
    \cup {Wallet("BaseWallet", a \cup {"current_nonce"}, cn) :
        a \in SUBSET {"sign_message"}, cn \in {None} \cup Nonces}
    \cup {Wallet("BaseWallet", a, None) : a \in SUBSET {"sign_message"}}

BaseTx(v) == [to |-> "0xT", value |-> v]

\* the requests a caller passes: with or without "from", with or without "nonce"
Requests ==
    LET plain == {BaseTx(v) : v \in 0..MaxValue}
        sender == plain \cup {DictSet(t, "from", "0xab") : t \in plain}
    IN  sender \cup {DictSet(t, "nonce", n) : t \in sender, n \in Nonces}

\* the accessors a signed transaction from this wallet can expose
Shapes(w) ==
    IF w.type = "BaseWallet"
    THEN SUBSET {"rawTransaction", "raw_transaction"}
    ELSE {{"rawTransaction"}, {"raw_transaction"}}

\* what the collaborators may do during one call: the wallet's signing may
\* fail; when it succeeds the wallet may write the allocated nonce into the
\* request, a wallet without cache picks its own nonce, and the signed
\* result has one of the shapes; the chain client may fail.  Choices that
\* the call cannot observe are fixed.
Quiet == [sign_fails |-> FALSE, writes_nonce |-> FALSE, chain_fails |-> FALSE,
          alloc |-> 0, shape |-> {"rawTransaction"}]

SignEnvs(w) ==
    {[Quiet EXCEPT !.sign_fails = TRUE]}
    \cup {[Quiet EXCEPT !.writes_nonce = wn, !.alloc = a, !.shape = sh] :
            wn \in BOOLEAN,
            a \in IF w.type = "BaseWallet" /\ ~Tracking(w) THEN 0..MaxAlloc ELSE {0},
            sh \in Shapes(w)}

SendEnvs(w) ==
    SignEnvs(w) \cup {[e EXCEPT !.chain_fails = TRUE] : e \in {x \in SignEnvs(w) : ~x.sign_fails}}

ProviderEnvs == {Quiet, [Quiet EXCEPT !.chain_fails = TRUE]}

\* no concurrent callers
NoThreads ==
    [mode |-> "idle", pc |-> <<"done", "done">>, nonce |-> <<0, 0>>,
     signed |-> <<FALSE, FALSE>>, computed |-> <<None, None>>, hwm |-> None]

\* nothing signed yet
NoHistory == [allocated |-> <<>>, explicit |-> None]

Init ==
    /\ wallet \in Wallets
    /\ call = [op |-> "init", arg |-> <<>>, wallet |-> wallet]
    /\ unsigned_tx = <<>>
    /\ ret = Returned(<<>>)
    /\ signing = NoSigning
    /\ chain_calls = <<>>
    /\ wallet_calls = <<>>
    /\ threads = NoThreads
    /\ history = NoHistory

GetAddress ==
    /\ call' = [op |-> "get_address", arg |-> <<>>, wallet |-> wallet]
    /\ ret' = get_address(wallet)
    /\ signing' = NoSigning
    /\ unsigned_tx' = <<>>
    /\ chain_calls' = <<>>
    /\ wallet_calls' = <<[op |-> "get_main_address", tx |-> <<>>]>>
    /\ UNCHANGED <<wallet, threads, history>>

SignMessage ==
    \E message \in Messages, env \in {Quiet, [Quiet EXCEPT !.sign_fails = TRUE]} :
        LET r == sign_message(wallet, message, env)
        IN  /\ call' = [op |-> "sign_message", arg |-> message, wallet |-> wallet]
            /\ ret' = r.ret
            /\ signing' = NoSigning
            /\ unsigned_tx' = <<>>
            /\ chain_calls' = <<>>
            /\ wallet_calls' = r.wcalls
            /\ UNCHANGED <<wallet, threads, history>>

SignTransaction ==
    \E tx \in Requests, env \in SignEnvs(wallet) :
        \E r \in {sign_transaction(wallet, tx, env)} :
            /\ r.wallet.current_nonce <= MaxCached
            /\ call' = [op |-> "sign_transaction", arg |-> tx, wallet |-> wallet]
            /\ ret' = r.ret
            /\ signing' = r.ret
            /\ unsigned_tx' = r.tx
            /\ wallet' = r.wallet
            /\ chain_calls' = <<>>
            /\ wallet_calls' = r.wcalls
            /\ UNCHANGED <<threads, history>>

SendTransaction ==
    \E tx \in Requests,
       env \in IF wallet.type = "Web3ProviderWallet" THEN ProviderEnvs ELSE SendEnvs(wallet) :
        \E r \in {send_transaction(wallet, tx, env)} :
            /\ r.wallet.current_nonce <= MaxCached
            /\ call' = [op |-> "send_transaction", arg |-> tx, wallet |-> wallet]
            /\ ret' = r.ret
            /\ signing' = r.signing
            /\ unsigned_tx' = r.tx
            /\ wallet' = r.wallet
            /\ chain_calls' = r.ccalls
            /\ wallet_calls' = r.wcalls
            /\ UNCHANGED <<threads, history>>

Next ==
    \/ GetAddress
    \/ SignMessage
    \/ SignTransaction
    \/ SendTransaction

Spec == Init /\ [][Next]_vars

TypeOK ==
    /\ wallet.type \in WalletTypes
    /\ wallet.current_nonce \in {None} \cup 0..MaxCached
    /\ ret.status \in {"returned", "raised"}
    /\ call.op \in {"init", "get_address", "sign_message", "sign_transaction", "send_transaction"}

(***************************************************************************)
(* Properties                                                              *)
(***************************************************************************)
SignedExplicit ==
    /\ call.op = "sign_transaction"
    /\ "nonce" \in DOMAIN call.arg
    /\ ret.status = "returned"

\* C1: once the wallet's cached next nonce is set, no call (get_address,
\* sign_message, sign_transaction, send_transaction, on any backend) leaves
\* it lower than it was before the call, or unset.
C1_CacheNeverDecreases ==
    [][wallet.current_nonce # None =>
        /\ wallet'.current_nonce # None
        /\ wallet'.current_nonce >= wallet.current_nonce]_vars

\* C1 witness: a stale explicit nonce (n + 1 below the cache) was signed and
\* the cache kept its value
C1_Witness ==
    /\ SignedExplicit
    /\ call.wallet.current_nonce # None
    /\ call.arg["nonce"] + 1 < call.wallet.current_nonce
    /\ wallet.current_nonce = call.wallet.current_nonce

\* C2 as stated: on a HotWallet every successful sign_transaction with an
\* explicit nonce n leaves the cache >= n + 1, whatever the cache was before
\* (unset included), and not lower than before.
C2_Original ==
    (SignedExplicit /\ call.wallet.type = "HotWallet") =>
        /\ wallet.current_nonce # None
        /\ wallet.current_nonce >= call.arg["nonce"] + 1
        /\ wallet.current_nonce >= call.wallet.current_nonce

\* C2 amended: on a HotWallet whose cache is set, a successful
\* sign_transaction with explicit nonce n leaves the cache >= n + 1 and not
\* lower than before; an unset cache (None) stays unset.
C2_CacheAtLeastNextWhenSet ==
    (SignedExplicit /\ call.wallet.type = "HotWallet") =>
        IF call.wallet.current_nonce = None
        THEN wallet.current_nonce = None
        ELSE /\ wallet.current_nonce >= call.arg["nonce"] + 1
             /\ wallet.current_nonce >= call.wallet.current_nonce

\* C2 witness: the explicit nonce was the new high-water mark of a set cache
C2_Witness ==
    /\ SignedExplicit
    /\ call.wallet.type = "HotWallet"
    /\ call.wallet.current_nonce # None
    /\ call.arg["nonce"] + 1 > call.wallet.current_nonce
    /\ wallet.current_nonce = call.arg["nonce"] + 1

\* C3: whenever sign_transaction is given an explicit nonce and returns a
\* signed transaction, the raw transaction is signed with exactly that nonce.
C3_ExplicitNonceSigned ==
    SignedExplicit =>
        \A a \in DOMAIN ret.value.attr : RawNonce(ret.value.attr[a]) = call.arg["nonce"]

\* C4: on a HotWallet whose cache holds c, a successful sign_transaction with
\* explicit nonce n sets the cache to exactly max(n + 1, c).
C4_CacheIsMax ==
    (SignedExplicit /\ call.wallet.type = "HotWallet" /\ call.wallet.current_nonce # None) =>
        LET n == call.arg["nonce"]
            c == call.wallet.current_nonce
        IN  wallet.current_nonce = (IF n + 1 > c THEN n + 1 ELSE c)

\* C4 witness: cache 1, explicit nonce 3, cache becomes 4
C4_Witness ==
    /\ SignedExplicit
    /\ call.wallet.type = "HotWallet"
    /\ call.wallet.current_nonce = 1
    /\ call.arg["nonce"] = 3
    /\ wallet.current_nonce = 4

\* C5: on a generic wallet, when sign_transaction with an explicit nonce n
\* returns, the caller's request has nonce n again and every other field as
\* before the call.
C5_RequestRestored ==
    (SignedExplicit /\ call.wallet.type = "BaseWallet") => unsigned_tx = call.arg

\* C5 witness: the wallet signed with another nonce than the caller's and
\* the request still carries the caller's
C5_Witness ==
    /\ SignedExplicit
    /\ call.wallet.type = "BaseWallet"
    /\ \E a \in DOMAIN ret.value.attr : RawNonce(ret.value.attr[a]) # call.arg["nonce"]
    /\ "from" \in DOMAIN call.arg
    /\ unsigned_tx["nonce"] = call.arg["nonce"]

\* the signing step of the last send_transaction produced a signed
\* transaction with raw bytes under a known accessor
SentRawExtractable ==
    /\ call.op = "send_transaction"
    /\ call.wallet.type # "Web3ProviderWallet"
    /\ signing.status = "returned"
    /\ DOMAIN signing.value.attr # {}

\* C6: send_transaction on a HotWallet or generic wallet whose signing step
\* yields raw bytes makes exactly one chain-client call, send_raw_transaction
\* with those bytes, and what it returns is the hash of that submission.
C6_OneRawSubmission ==
    SentRawExtractable =>
        /\ Len(chain_calls) = 1
        /\ chain_calls[1].method = "send_raw_transaction"
        /\ \A a \in DOMAIN signing.value.attr : chain_calls[1].arg = signing.value.attr[a]
        /\ ret.status = "returned" => ret.value = TxHash(chain_calls[1].arg)

\* C6 witness: a signed transaction was submitted and its hash returned
C6_Witness ==
    /\ SentRawExtractable
    /\ ret.status = "returned"
    /\ Len(chain_calls) = 1

SentViaProvider ==
    /\ call.op = "send_transaction"
    /\ call.wallet.type = "Web3ProviderWallet"

\* C7: on a Web3ProviderWallet the mapping passed to web3.eth.send_transaction
\* never has a "from" field, and the caller's request is as it was (it still
\* has its "from").
C7_NoSenderInPayload ==
    SentViaProvider =>
        /\ \A i \in 1..Len(chain_calls) : "from" \notin DOMAIN chain_calls[i].arg
        /\ unsigned_tx = call.arg

\* C7 witness: a request with "from" was submitted through the provider
C7_Witness ==
    /\ SentViaProvider
    /\ "from" \in DOMAIN call.arg
    /\ Len(chain_calls) = 1
    /\ "from" \in DOMAIN unsigned_tx

\* C8: on a Web3ProviderWallet the allocator is invoked iff the request has no
\* nonce and the wallet has an allocator; the payload then carries the
\* allocated nonce.  A request nonce is passed through; with neither, the
\* payload has no nonce.  All fields but "from" and "nonce" equal the request's.
C8_ProviderNonce ==
    SentViaProvider =>
        LET req == call.arg
            allocates == "nonce" \notin DOMAIN req /\ "allocate_nonce" \in call.wallet.attrs
        IN  /\ allocates <=> wallet_calls # <<>>
            /\ \A i \in 1..Len(wallet_calls) : wallet_calls[i].op = "allocate_nonce"
            /\ Len(wallet_calls) <= 1
            /\ Len(chain_calls) <= 1
            /\ \A i \in 1..Len(chain_calls) :
                 LET p == chain_calls[i].arg
                 IN  /\ chain_calls[i].method = "send_transaction"
                     /\ (DOMAIN p) \ {"nonce"} = (DOMAIN req) \ {"from", "nonce"}
                     /\ \A f \in (DOMAIN p) \ {"nonce"} : p[f] = req[f]
                     /\ IF "nonce" \in DOMAIN req
                        THEN "nonce" \in DOMAIN p /\ p["nonce"] = req["nonce"]
                        ELSE IF allocates
                        THEN "nonce" \in DOMAIN p /\ p["nonce"] = call.wallet.current_nonce
                        ELSE "nonce" \notin DOMAIN p

\* C8 witness: a request without nonce on a wallet without allocator reached
\* the chain client without a nonce
C8_Witness ==
    /\ SentViaProvider
    /\ "allocate_nonce" \notin call.wallet.attrs
    /\ "nonce" \notin DOMAIN call.arg
    /\ Len(chain_calls) = 1
    /\ "nonce" \notin DOMAIN chain_calls[1].arg

\* C9: sign_message on a Web3ProviderWallet, for any accepted message form,
\* fails with a failure the caller sees as UnsupportedOperation, and makes no
\* chain-client call.
C9_ProviderSignMessageUnsupported ==
    (call.op = "sign_message" /\ call.wallet.type = "Web3ProviderWallet"
        /\ call.arg.type \in {"str", "int", "bytes"}) =>
        /\ ret.status = "raised"
        /\ Kind(ret.exc) = "UnsupportedOperation"
        /\ chain_calls = <<>>

\* C10: whenever the wallet raises during sign_transaction, the failure that
\* reaches the caller is SigningFailed with the wallet's error as its cause.
C10_SignErrorsWrapped ==
    (call.op = "sign_transaction" /\ ret.status = "raised" /\ wallet_calls # <<>>) =>
        /\ Kind(ret.exc) = "SigningFailed"
        /\ Len(ret.exc) >= 2

\* C11: whenever send_transaction fails, on every backend (the provider path
\* with a failing allocator or a failing web3.eth.send_transaction included),
\* the failure the caller sees is TransactionSendFailed with the original
\* error as its cause.
C11_SendErrorsWrapped ==
    (call.op = "send_transaction" /\ ret.status = "raised") =>
        /\ Kind(ret.exc) = "TransactionSendFailed"
        /\ Len(ret.exc) >= 2

\* the signing step of the last send_transaction produced a signed result
\* that has none of the known raw-bytes accessors
SentMalformed ==
    /\ call.op = "send_transaction"
    /\ call.wallet.type # "Web3ProviderWallet"
    /\ signing.status = "returned"
    /\ DOMAIN signing.value.attr = {}

\* C12: when send_transaction signs successfully but the signed result has
\* no known raw-bytes accessor, the caller sees a failure of kind
\* MalformedSignedTransaction and the chain client is not called.
C12_MalformedSurfaced ==
    SentMalformed =>
        /\ ret.status = "raised"
        /\ Kind(ret.exc) = "MalformedSignedTransaction"
        /\ chain_calls = <<>>

\* the last call was a send_transaction on a HotWallet that signed and then
\* failed
LocalSendFailedAfterSigning ==
    /\ call.op = "send_transaction"
    /\ call.wallet.type = "HotWallet"
    /\ signing.status = "returned"
    /\ ret.status = "raised"

\* C13: when send_transaction on a HotWallet signs successfully and then
\* fails, the cache has the value signing gave it (max(n + 1, c) for an
\* explicit nonce n, c + 1 for an allocated one), not the pre-call value.
C13_NoRollback ==
    LocalSendFailedAfterSigning =>
        LET c == call.wallet.current_nonce
        IN  IF "nonce" \in DOMAIN call.arg
            THEN LET n == call.arg["nonce"]
                 IN  wallet.current_nonce =
                        (IF c = None THEN None ELSE IF n + 1 > c THEN n + 1 ELSE c)
            ELSE wallet.current_nonce = c + 1

\* C13 witness: the submission failed and the cache differs from its
\* pre-call value
C13_Witness ==
    /\ LocalSendFailedAfterSigning
    /\ chain_calls # <<>>
    /\ call.wallet.current_nonce # None
    /\ wallet.current_nonce > call.wallet.current_nonce

\* C14: sign_message on a generic wallet that has sign_message returns the
\* signature the wallet produced for the prefixed message.
C14_GenericReturnsSignature ==
    (call.op = "sign_message" /\ call.wallet.type = "BaseWallet"
        /\ "sign_message" \in call.wallet.attrs /\ ret.status = "returned") =>
        ret.value = [signer |-> call.wallet.address,
                     signed |-> Normalize(call.arg).signable_message]

\* C15 as stated: the cached nonce changes only in a call whose signing step
\* succeeded; get_address, sign_message, failed or unsupported calls and
\* send_transaction on a Web3ProviderWallet leave it as it was.
C15_Original ==
    /\ wallet.current_nonce # call.wallet.current_nonce => signing.status = "returned"
    /\ SentViaProvider => wallet.current_nonce = call.wallet.current_nonce

\* C15 amended: the cached nonce changes only in a call whose signing step
\* succeeded, or in a send_transaction on a Web3ProviderWallet that takes a
\* nonce from the wallet's allocator for a request without one; every other
\* call leaves it as it was.
C15_ChangesOnlyBySignOrAllocation ==
    wallet.current_nonce # call.wallet.current_nonce =>
        \/ signing.status = "returned"
        \/ /\ SentViaProvider
           /\ "nonce" \notin DOMAIN call.arg
           /\ "allocate_nonce" \in call.wallet.attrs
           /\ wallet.current_nonce = call.wallet.current_nonce + 1

\* C15 witness: a request with its own nonce went through a provider wallet
\* that has an allocator and a set cache, and the cache is as it was
C15_Witness ==
    /\ SentViaProvider
    /\ "nonce" \in DOMAIN call.arg
    /\ "allocate_nonce" \in call.wallet.attrs
    /\ call.wallet.current_nonce # None
    /\ chain_calls # <<>>
    /\ wallet.current_nonce = call.wallet.current_nonce

SignedWithoutNonce ==
    /\ call.op = "sign_transaction"
    /\ call.wallet.type = "HotWallet"
    /\ "nonce" \notin DOMAIN call.arg

\* C16: on a HotWallet, sign_transaction without a nonce calls the wallet's
\* sign_transaction_with_new_nonce exactly once with the request; the cache
\* afterwards is what that operation left (advanced by one on success,
\* untouched on failure) and the wallet's result is what comes back.
C16_DelegatesEntirely ==
    SignedWithoutNonce =>
        /\ wallet_calls = <<[op |-> "sign_transaction_with_new_nonce", tx |-> call.arg]>>
        /\ IF ret.status = "returned"
           THEN /\ wallet.current_nonce = call.wallet.current_nonce + 1
                /\ ret.value.cls = "SignedTransactionWithNonce"
                /\ \A a \in DOMAIN ret.value.attr :
                     RawNonce(ret.value.attr[a]) = call.wallet.current_nonce
           ELSE /\ wallet.current_nonce = call.wallet.current_nonce
                /\ ret.exc = Exc("WalletError", "sign_transaction_with_new_nonce")

\* C16 witness: the wallet allocated its cached nonce and advanced it
C16_Witness ==
    /\ SignedWithoutNonce
    /\ ret.status = "returned"
    /\ call.wallet.current_nonce = 2
    /\ wallet.current_nonce = 3

\* C17: on a generic wallet, when sign_transaction with explicit nonce n
\* fails because the wallet's sign_transaction_with_new_nonce raises, the
\* caller's request still has its nonce n and is otherwise unchanged.
C17_RequestRestoredOnFailure ==
    (call.op = "sign_transaction" /\ call.wallet.type = "BaseWallet"
        /\ "nonce" \in DOMAIN call.arg /\ ret.status = "raised") =>
        /\ "nonce" \in DOMAIN unsigned_tx
        /\ unsigned_tx = call.arg

(***************************************************************************)
(* Two callers in sign_transaction on one HotWallet, each with an explicit *)
(* nonce (lines 114-118).  The statement of line 117 reads current_nonce,  *)
(* computes the maximum and stores it: three steps another thread can run  *)
(* between.  In mode "serialized" the callers hold an external lock for    *)
(* the whole call; in mode "interleaved" they do not.                      *)
(***************************************************************************)
Threads == {1, 2}

Other(t) == 3 - t

HotWallets(nonces) ==
    {Wallet("HotWallet", {"current_nonce", "allocate_nonce"}, cn) : cn \in nonces}

InitThreads ==
    /\ wallet \in HotWallets({None} \cup Nonces)
    /\ call = [op |-> "init", arg |-> <<>>, wallet |-> wallet]
    /\ unsigned_tx = <<>>
    /\ ret = Returned(<<>>)
    /\ signing = NoSigning
    /\ chain_calls = <<>>
    /\ wallet_calls = <<>>
    /\ history = NoHistory
    /\ \E mode \in {"serialized", "interleaved"}, n1 \in Nonces, n2 \in Nonces :
        /\ n1 < n2
        /\ threads = [mode |-> mode, pc |-> <<"start", "start">>, nonce |-> <<n1, n2>>,
                      signed |-> <<FALSE, FALSE>>, computed |-> <<None, None>>,
                      hwm |-> wallet.current_nonce]

\* line 114: result = self.wallet.account.sign_transaction(unsigned_tx)
ThreadSign(t) ==
    /\ threads.pc[t] = "start"
    /\ threads.mode = "serialized" => threads.pc[Other(t)] \in {"start", "done"}
    /\ \E sign_fails \in BOOLEAN :
        threads' = [threads EXCEPT !.pc[t] = IF sign_fails THEN "done" ELSE "signed",
                                   !.signed[t] = ~sign_fails]
    /\ UNCHANGED <<wallet, log, history>>

\* lines 116-117, the read: the test for None and the value of
\* max(unsigned_tx["nonce"] + 1, self.wallet.current_nonce)
ThreadRead(t) ==
    /\ threads.pc[t] = "signed"
    /\ threads' = IF wallet.current_nonce # None
                  THEN [threads EXCEPT !.pc[t] = "computed",
                            !.computed[t] = Reconcile(threads.nonce[t], wallet.current_nonce)]
                  ELSE [threads EXCEPT !.pc[t] = "done"]
    /\ UNCHANGED <<wallet, log, history>>

\* line 117, the write: self.wallet.current_nonce = <the value computed>
ThreadWrite(t) ==
    /\ threads.pc[t] = "computed"
    /\ wallet' = [wallet EXCEPT !.current_nonce = threads.computed[t]]
    /\ threads' = [threads EXCEPT !.pc[t] = "done",
                                  !.hwm = max(@, threads.computed[t])]
    /\ UNCHANGED <<log, history>>

NextThreads ==
    \E t \in Threads :
        \/ ThreadSign(t)
        \/ ThreadRead(t)
        \/ ThreadWrite(t)

SpecThreads == InitThreads /\ [][NextThreads]_vars

\* both calls are over and the cache is below a value it held earlier and
\* below n2 + 1, although the call with n2 signed
LostUpdate ==
    /\ threads.pc = <<"done", "done">>
    /\ threads.signed[2]
    /\ wallet.current_nonce # None
    /\ wallet.current_nonce < threads.nonce[2] + 1
    /\ wallet.current_nonce < threads.hwm

\* C18: two sign_transaction calls with explicit nonces n1 < n2 on one
\* HotWallet lose an update only when they interleave between the read and
\* the write of the cache; serialized calls never end with the cache below
\* n2 + 1 or below an earlier value.
C18_LostUpdateOnlyInterleaved ==
    /\ LostUpdate => threads.mode = "interleaved"
    /\ (threads.mode = "serialized" /\ threads.pc = <<"done", "done">>
            /\ threads.signed[2] /\ wallet.current_nonce # None) =>
        /\ wallet.current_nonce >= threads.nonce[2] + 1
        /\ wallet.current_nonce >= threads.hwm

\* C18 witness: interleaved calls lost the update of the call with n2
C18_Witness ==
    /\ LostUpdate
    /\ threads.mode = "interleaved"
    /\ threads.signed[1]
    /\ wallet.current_nonce = threads.nonce[1] + 1

(***************************************************************************)
(* A whole sequence of sign_transaction / send_transaction calls, one at a *)
(* time, on a HotWallet whose cache is initialised.  history.allocated is   *)
(* the list of signs made without an explicit nonce: the nonce the wallet   *)
(* allocated and, as floor, the largest explicit nonce signed before it.    *)
(* history.explicit is the largest explicit nonce signed so far.            *)
(***************************************************************************)
InitHistory ==
    /\ wallet \in HotWallets(Nonces)
    /\ call = [op |-> "init", arg |-> <<>>, wallet |-> wallet]
    /\ unsigned_tx = <<>>
    /\ ret = Returned(<<>>)
    /\ signing = NoSigning
    /\ chain_calls = <<>>
    /\ wallet_calls = <<>>
    /\ threads = NoThreads
    /\ history = NoHistory

\* the nonce a signed transaction of a HotWallet was signed with
SignedNonce(signed_tx) == RawNonce(ExtractRaw(signed_tx).raw_tx)

\* the history after a call with request tx whose signing step ended as s
Recorded(h, tx, s) ==
    IF s.status # "returned"
    THEN h
    ELSE IF "nonce" \in DOMAIN tx
    THEN [h EXCEPT !.explicit = max(@, tx["nonce"])]
    ELSE [h EXCEPT !.allocated =
            Append(@, [nonce |-> SignedNonce(s.value), floor |-> h.explicit])]

HistorySign ==
    \E tx \in Requests, env \in SignEnvs(wallet) :
        \E r \in {sign_transaction(wallet, tx, env)} :
            /\ r.wallet.current_nonce <= MaxCached
            /\ wallet' = r.wallet
            /\ history' = Recorded(history, tx, r.ret)
            /\ UNCHANGED <<log, threads>>

HistorySend ==
    \E tx \in Requests, env \in SendEnvs(wallet) :
        \E r \in {send_transaction(wallet, tx, env)} :
            /\ r.wallet.current_nonce <= MaxCached
            /\ wallet' = r.wallet
            /\ history' = Recorded(history, tx, r.signing)
            /\ UNCHANGED <<log, threads>>

NextHistory ==
    \/ HistorySign
    \/ HistorySend

SpecHistory == InitHistory /\ [][NextHistory]_vars

\* C19: on a HotWallet with an initialised cache and calls made one at a
\* time, every sign without an explicit nonce that follows a successful sign
\* with explicit nonce n is signed with an allocated nonce greater than n,
\* and no two signs without an explicit nonce get the same nonce.
C19_AllocatedAboveExplicitAndDistinct ==
    LET a == history.allocated
    IN  /\ \A i \in 1..Len(a) : a[i].floor # None => a[i].nonce > a[i].floor
        /\ \A i, j \in 1..Len(a) : i # j => a[i].nonce # a[j].nonce

\* C19 witness: an allocation, then an explicit nonce above the cache, then
\* an allocation above that explicit nonce
C19_Witness ==
    LET a == history.allocated
    IN  /\ Len(a) >= 2
        /\ a[1].floor = None
        /\ a[Len(a)].floor # None
        /\ a[Len(a)].floor > a[1].nonce + 1
        /\ a[Len(a)].nonce = a[Len(a)].floor + 1

====
